---- MODULE Spec2Model ----
(***************************************************************************)
(* Model of src/Code.js (email-to-ics): the polling loop onNewEmail, the   *)
(* per-message pipeline processEmail -> openAiApiCall -> createICSFile ->  *)
(* sendResponse, and the pure text functions they use.                     *)
(*                                                                         *)
(* Text is a sequence of one-character strings.  A JavaScript value is a   *)
(* record [kind, chars]: undefined, null, a string or a number (chars its   *)
(* digits).  A parsed JSON object is a function from the keys it has to    *)
(* their values.                                                           *)
(***************************************************************************)
EXTENDS Naturals, Sequences, FiniteSets, TLC

VARIABLES
    eventData,      \* the object handed to createICSFile / returned by openAiApiCall
    rawModelText,   \* json.choices[0].message.content, as tokens
    validated,      \* outcome of the parse-and-validate part of openAiApiCall
    icsContent,     \* outcome of createICSFile
    formattedICS,   \* sendResponse's formattedICS (the text of the attachment)
    upc,            \* position of the stand-alone calls (SpecUnit)
    unread,         \* mailbox: the set of unread threads
    messages,       \* mailbox: thread -> number of messages getMessages() returned (0: not asked)
    modelReply,     \* environment: thread -> what the model service does for its last message
    replyFails,     \* environment: thread -> whether thread.reply throws
    threads,        \* onNewEmail: result of GmailApp.search for this run
    idx,            \* onNewEmail: position of the for loop in threads
    pc,             \* onNewEmail / processEmail: program position
    msgIndex,       \* onNewEmail: index of the message handed to processEmail
    raised,         \* the error in flight (NoError when none)
    calls,          \* history: thread -> model calls in this run
    replies,        \* history: thread -> replies sent in this run
    attached,       \* history: thread -> documents attached to replies in this run
    stage,          \* history: thread -> steps of the pipeline completed in this run
    origin,         \* history: thread -> error first raised inside the pipeline in this run
    thrown,         \* history: thread -> error raised out of processEmail in this run
    fieldChecks,    \* history: thread -> required fields examined in this run
    handled,        \* history: thread -> message index processEmail was called with
    dateTime,       \* the timestamp handed to formatDate / formatTime
    dateText,       \* result of formatDate
    timeText,       \* result of formatTime
    triggers,       \* ScriptApp: the project's triggers
    triggerCalls    \* number of calls of createTrigger made

unitVars == <<eventData, rawModelText, validated, icsContent, formattedICS, upc>>
mailVars == <<unread, messages, modelReply, replyFails>>
loopVars == <<threads, idx, pc, msgIndex, raised>>
histVars == <<calls, replies, attached, stage, origin, thrown, fieldChecks, handled>>
auxVars == <<dateTime, dateText, timeText, triggers, triggerCalls>>
vars == <<unitVars, mailVars, loopVars, histVars, auxVars>>

---------------------------------------------------------------------------
(* Bounds *)

\* Title and location of an input together hold at most this many characters.
MaxTextLen == 2

---------------------------------------------------------------------------
(* Characters and JavaScript values *)

BSL == "\\"
SEMI == ";"
COMMA == ","
LF == "\n"
CR == "\r"

\* "n" is the ordinary character: it is also the letter of the newline escape.
Alphabet == {BSL, SEMI, COMMA, LF, CR, "n"}

RECURSIVE StringsUpTo(_)
StringsUpTo(n) ==
    IF n = 0 THEN {<<>>}
    ELSE LET shorter == StringsUpTo(n - 1)
         IN shorter \cup {Append(s, c) : s \in {t \in shorter : Len(t) = n - 1}, c \in Alphabet}

Undefined == [kind |-> "undefined", chars |-> <<>>]
Null == [kind |-> "null", chars |-> <<>>]
Str(s) == [kind |-> "string", chars |-> s]
Num(digits) == [kind |-> "number", chars |-> digits]

\* JavaScript truthiness: undefined, null, "" and 0 are falsy.
Truthy(v) ==
    \/ v.kind = "string" /\ v.chars # <<>>
    \/ v.kind = "number" /\ v.chars # <<"0">>

IsString(v) == v.kind = "string"

\* obj[key]: undefined for a key the object lacks.
Get(obj, key) == IF key \in DOMAIN obj THEN obj[key] ELSE Undefined

Keys == {"event_title", "datetime_start", "datetime_end", "location"}

\* The object with the given properties; an undefined one is left out.
MkObj(t, s, e, l) ==
    LET all == [k \in Keys |->
                  CASE k = "event_title" -> t
                    [] k = "datetime_start" -> s
                    [] k = "datetime_end" -> e
                    [] k = "location" -> l]
    IN [k \in {x \in Keys : all[x] # Undefined} |-> all[k]]

EmptyObj == [k \in {} |-> Null]

---------------------------------------------------------------------------
(* Errors *)

NoError == [name |-> "none", message |-> "", field |-> ""]
SyntaxError == [name |-> "SyntaxError", message |-> "Unexpected token", field |-> ""]
MissingFieldError(f) == [name |-> "Error", message |-> "Missing required field", field |-> f]
MissingEventDataError == [name |-> "Error", message |-> "Missing required event data", field |-> ""]
FetchError == [name |-> "Exception", message |-> "Request failed", field |-> ""]
ReplyError == [name |-> "Exception", message |-> "Reply failed", field |-> ""]
\* text.replace / dateTime.slice called on a value that is not a string
TypeError == [name |-> "TypeError", message |-> "is not a function", field |-> ""]

Returned(v) == [threw |-> FALSE, error |-> NoError, value |-> v]
Threw(e, none) == [threw |-> TRUE, error |-> e, value |-> none]

---------------------------------------------------------------------------
(* createICSFile *)

L_BEGIN_VCALENDAR == <<"B","E","G","I","N",":","V","C","A","L","E","N","D","A","R">>
L_VERSION == <<"V","E","R","S","I","O","N",":","2",".","0">>
L_BEGIN_VEVENT == <<"B","E","G","I","N",":","V","E","V","E","N","T">>
P_SUMMARY == <<"S","U","M","M","A","R","Y",":">>
P_DTSTART == <<"D","T","S","T","A","R","T",":">>
P_DTEND == <<"D","T","E","N","D",":">>
P_LOCATION == <<"L","O","C","A","T","I","O","N",":">>
L_END_VEVENT == <<"E","N","D",":","V","E","V","E","N","T">>
L_END_VCALENDAR == <<"E","N","D",":","V","C","A","L","E","N","D","A","R">>
CRLF == <<CR, LF>>

\* text.replace(/[\\;,]/g, '\\$&')
RECURSIVE EscapePunctuation(_)
EscapePunctuation(s) ==
    IF s = <<>> THEN <<>>
    ELSE (IF Head(s) \in {BSL, SEMI, COMMA} THEN <<BSL, Head(s)>> ELSE <<Head(s)>>)
         \o EscapePunctuation(Tail(s))

\* text.replace(/\n/g, '\\n')
RECURSIVE EscapeNewlines(_)
EscapeNewlines(s) ==
    IF s = <<>> THEN <<>>
    ELSE (IF Head(s) = LF THEN <<BSL, "n">> ELSE <<Head(s)>>) \o EscapeNewlines(Tail(s))

\* Mutant: line feeds are left as they are.
escapeText_NoNewlines(text) ==
    IF ~Truthy(text) THEN <<>> ELSE EscapePunctuation(text.chars)

\* Mutant: newlines escaped first, so their backslash is escaped again.
escapeText_NewlinesFirst(text) ==
    IF ~Truthy(text) THEN <<>> ELSE EscapePunctuation(EscapeNewlines(text.chars))

\* For a string; a truthy value that is not a string has no replace method
\* (EscapeTextThrows).
escapeText(text) ==
    IF ~Truthy(text) THEN <<>> ELSE EscapeNewlines(EscapePunctuation(text.chars))

EscapeTextThrows(text) == Truthy(text) /\ ~IsString(text)

\* Array.prototype.join
RECURSIVE Join(_, _)
Join(lines, sep) ==
    IF lines = <<>> THEN <<>>
    ELSE IF Len(lines) = 1 THEN lines[1]
    ELSE lines[1] \o sep \o Join(Tail(lines), sep)

\* `${v}` for a string or a number
Text(v) == v.chars

\* Mutant: the timestamps are escaped like the text fields.
IcsLines_EscapedTimestamps(ev) ==
    <<L_BEGIN_VCALENDAR,
      L_VERSION,
      L_BEGIN_VEVENT,
      P_SUMMARY \o escapeText(Get(ev, "event_title")),
      P_DTSTART \o escapeText(Get(ev, "datetime_start")),
      P_DTEND \o escapeText(Get(ev, "datetime_end")),
      IF Truthy(Get(ev, "location")) THEN P_LOCATION \o escapeText(Get(ev, "location")) ELSE <<>>,
      L_END_VEVENT,
      L_END_VCALENDAR>>

IcsLines(ev) ==
    <<L_BEGIN_VCALENDAR,
      L_VERSION,
      L_BEGIN_VEVENT,
      P_SUMMARY \o escapeText(Get(ev, "event_title")),
      P_DTSTART \o Text(Get(ev, "datetime_start")),
      P_DTEND \o Text(Get(ev, "datetime_end")),
      IF Truthy(Get(ev, "location")) THEN P_LOCATION \o escapeText(Get(ev, "location")) ELSE <<>>,
      L_END_VEVENT,
      L_END_VCALENDAR>>

NonEmptyLine(l) == l # <<>>

\* Mutant: the re-check forgets the title.
RequiredEventDataPresent_NeedsLocation(ev) ==
    /\ Truthy(Get(ev, "datetime_start"))
    /\ Truthy(Get(ev, "datetime_end"))
    /\ Truthy(Get(ev, "event_title"))
    /\ Truthy(Get(ev, "location"))

RequiredEventDataPresent_NoTitle(ev) ==
    /\ Truthy(Get(ev, "datetime_start"))
    /\ Truthy(Get(ev, "datetime_end"))

RequiredEventDataPresent(ev) ==
    /\ Truthy(Get(ev, "datetime_start"))
    /\ Truthy(Get(ev, "datetime_end"))
    /\ Truthy(Get(ev, "event_title"))

\* Mutant: lines joined with a bare line feed.
createICSFile_JoinLF(ev) ==
    IF ~RequiredEventDataPresent(ev)
    THEN Threw(MissingEventDataError, <<>>)
    ELSE IF EscapeTextThrows(Get(ev, "event_title")) \/ EscapeTextThrows(Get(ev, "location"))
    THEN Threw(TypeError, <<>>)
    ELSE Returned(Join(SelectSeq(IcsLines(ev), NonEmptyLine), <<LF>>))

\* Mutant: the empty LOCATION entry is not filtered out.
createICSFile_NoFilter(ev) ==
    IF ~RequiredEventDataPresent(ev)
    THEN Threw(MissingEventDataError, <<>>)
    ELSE IF EscapeTextThrows(Get(ev, "event_title")) \/ EscapeTextThrows(Get(ev, "location"))
    THEN Threw(TypeError, <<>>)
    ELSE Returned(Join(IcsLines(ev), CRLF))

createICSFile(ev) ==
    IF ~RequiredEventDataPresent(ev)
    THEN Threw(MissingEventDataError, <<>>)
    ELSE IF EscapeTextThrows(Get(ev, "event_title")) \/ EscapeTextThrows(Get(ev, "location"))
    THEN Threw(TypeError, <<>>)
    ELSE Returned(Join(SelectSeq(IcsLines(ev), NonEmptyLine), CRLF))

---------------------------------------------------------------------------
(* sendResponse: the text of the attachment *)

Whitespace == {" ", "\t", LF, CR}

RECURSIVE TrimStart(_)
TrimStart(s) ==
    IF s # <<>> /\ Head(s) \in Whitespace THEN TrimStart(Tail(s)) ELSE s

RECURSIVE TrimEnd(_)
TrimEnd(s) ==
    IF s # <<>> /\ s[Len(s)] \in Whitespace THEN TrimEnd(SubSeq(s, 1, Len(s) - 1)) ELSE s

Trim(s) == TrimEnd(TrimStart(s))

\* Mutant: the trailing line ending is forgotten.
FormatICS_TrimOnly(doc) == Trim(doc)

\* icsContent.trim() + '\r\n'
FormatICS(doc) == Trim(doc) \o CRLF

\* formatDate / formatTime slice their argument: building the reply body
\* throws when a timestamp is not a string.
EmailBodyThrows(ev) ==
    ~IsString(Get(ev, "datetime_start")) \/ ~IsString(Get(ev, "datetime_end"))

---------------------------------------------------------------------------
(* openAiApiCall: parsing and validating the model's answer *)

\* The model's answer as tokens: a well-formed JSON object, a markdown fence,
\* a run of prose, or white space.
TokObject(o) == [t |-> "object", obj |-> o]
TokFence == [t |-> "fence", obj |-> EmptyObj]
TokProse == [t |-> "prose", obj |-> EmptyObj]
TokSpace == [t |-> "space", obj |-> EmptyObj]

RECURSIVE SkipSpaceStart(_)
SkipSpaceStart(text) ==
    IF text # <<>> /\ Head(text) = TokSpace THEN SkipSpaceStart(Tail(text)) ELSE text

RECURSIVE SkipSpaceEnd(_)
SkipSpaceEnd(text) ==
    IF text # <<>> /\ text[Len(text)] = TokSpace
    THEN SkipSpaceEnd(SubSeq(text, 1, Len(text) - 1))
    ELSE text

\* Mutant: markdown fences around the value are tolerated.
JSONparse_StripFences(text) ==
    LET core == SelectSeq(text, LAMBDA tok : tok.t \notin {"space", "fence"})
    IN IF Len(core) = 1 /\ core[1].t = "object"
       THEN Returned(core[1].obj)
       ELSE Threw(SyntaxError, EmptyObj)

\* JSON.parse: one JSON value, white space allowed around it, nothing else.
JSONparse(text) ==
    LET core == SkipSpaceEnd(SkipSpaceStart(text))
    IN IF Len(core) = 1 /\ core[1].t = "object"
       THEN Returned(core[1].obj)
       ELSE Threw(SyntaxError, EmptyObj)

\* Mutant: the end timestamp is not required.
requiredFields_NoEnd == <<"event_title", "datetime_start">>

requiredFields == <<"event_title", "datetime_start", "datetime_end">>

\* The for loop over requiredFields, from position i: the first falsy field
\* throws; `checked` counts the fields examined.
RECURSIVE CheckRequired(_, _)
CheckRequired(obj, i) ==
    IF i > Len(requiredFields)
    THEN [threw |-> FALSE, error |-> NoError, value |-> obj, checked |-> i - 1]
    ELSE IF ~Truthy(Get(obj, requiredFields[i]))
    THEN [threw |-> TRUE, error |-> MissingFieldError(requiredFields[i]),
          value |-> EmptyObj, checked |-> i]
    ELSE CheckRequired(obj, i + 1)

\* Lines 142-153 of openAiApiCall, applied to the content of the model's answer.
ParseAndValidate(text) ==
    LET parsed == JSONparse(text)
    IN IF parsed.threw
       THEN [threw |-> TRUE, error |-> parsed.error, value |-> EmptyObj, checked |-> 0]
       ELSE CheckRequired(parsed.value, 1)

\* How the model may wrap the object it was asked for.
Wrappings == {"bare", "spaced", "fenced", "prose", "preamble"}

Wrap(w, o) ==
    CASE w = "bare" -> <<TokObject(o)>>
      [] w = "spaced" -> <<TokSpace, TokObject(o), TokSpace>>
      [] w = "fenced" -> <<TokFence, TokObject(o), TokFence>>
      [] w = "prose" -> <<TokProse>>
      [] w = "preamble" -> <<TokProse, TokObject(o)>>

---------------------------------------------------------------------------
(* Inputs *)

WellFormedStart == <<"2","0","2","5","0","3","1","4","T","0","9","0","0","0","0">>
WellFormedEnd == <<"2","0","2","5","0","3","1","4","T","1","0","0","0","0","0">>
MalformedTimestamp == <<"n", SEMI>>

TextValues == {Undefined, Null, Num(<<"7">>)} \cup {Str(s) : s \in StringsUpTo(MaxTextLen)}
TextPairs == {p \in TextValues \X TextValues : Len(p[1].chars) + Len(p[2].chars) <= MaxTextLen}
StartValues == {Undefined, Null, Str(<<>>), Str(WellFormedStart), Str(MalformedTimestamp), Num(<<"7">>)}
EndValues == {Undefined, Null, Str(<<>>), Str(WellFormedEnd), Str(MalformedTimestamp)}

NoResult == [threw |-> FALSE, error |-> NoError, value |-> <<>>]
NoValidation == [threw |-> FALSE, error |-> NoError, value |-> EmptyObj, checked |-> 0]

---------------------------------------------------------------------------
(* The mailbox and the run of onNewEmail: initial values *)

NumThreads == 2
MaxMessages == 2
Threads == 1..NumThreads

Steps == {"model", "validation", "invite", "reply", "read"}
NotHandled == [index |-> 0, count |-> 0]

\* Nothing recorded yet for the run.
FreshHistory ==
    /\ calls = [t \in Threads |-> 0]
    /\ replies = [t \in Threads |-> 0]
    /\ attached = [t \in Threads |-> <<>>]
    /\ stage = [t \in Threads |-> {}]
    /\ origin = [t \in Threads |-> NoError]
    /\ thrown = [t \in Threads |-> NoError]
    /\ fieldChecks = [t \in Threads |-> 0]
    /\ handled = [t \in Threads |-> NotHandled]

\* formatDate and createTrigger not in use.
AuxIdle ==
    /\ dateTime = <<>>
    /\ dateText = <<>>
    /\ timeText = <<>>
    /\ triggers = <<>>
    /\ triggerCalls = 0

MailIdle ==
    /\ unread = {}
    /\ messages = [t \in Threads |-> 0]
    /\ modelReply = [t \in Threads |-> [fails |-> FALSE, text |-> <<>>]]
    /\ replyFails = [t \in Threads |-> FALSE]
    /\ threads = <<>>
    /\ idx = 0
    /\ pc = "off"
    /\ msgIndex = 0
    /\ raised = NoError
    /\ FreshHistory

---------------------------------------------------------------------------
(* SpecUnit: the functions called on their own, on every input in the bounds *)

UnitInit ==
    /\ \E p \in TextPairs, s \in StartValues, e \in EndValues :
          eventData = MkObj(p[1], s, e, p[2])
    /\ rawModelText = <<>>
    /\ validated = NoValidation
    /\ icsContent = NoResult
    /\ formattedICS = <<>>
    /\ upc = "input"
    /\ MailIdle
    /\ AuxIdle

\* The model answers with the object, wrapped one way or another, and
\* openAiApiCall parses and validates the answer.
UnitValidate ==
    /\ upc = "input"
    /\ \E w \in Wrappings :
          /\ rawModelText' = Wrap(w, eventData)
          /\ validated' = ParseAndValidate(Wrap(w, eventData))
    /\ upc' = "validated"
    /\ UNCHANGED <<eventData, icsContent, formattedICS, mailVars, loopVars, histVars>>
    /\ UNCHANGED auxVars

\* createICSFile called on its own with the object.
UnitCreate ==
    /\ upc = "input"
    /\ icsContent' = createICSFile(eventData)
    /\ upc' = "created"
    /\ UNCHANGED <<eventData, rawModelText, validated, formattedICS, mailVars, loopVars, histVars>>
    /\ UNCHANGED auxVars

\* createICSFile called with the object the validation returned.
UnitBuild ==
    /\ upc = "validated"
    /\ ~validated.threw
    /\ icsContent' = createICSFile(validated.value)
    /\ upc' = "built"
    /\ UNCHANGED <<eventData, rawModelText, validated, formattedICS, mailVars, loopVars, histVars>>
    /\ UNCHANGED auxVars

\* sendResponse turns the document into the text of the attachment.
UnitFormat ==
    /\ upc \in {"created", "built"}
    /\ ~icsContent.threw
    /\ ~EmailBodyThrows(IF upc = "built" THEN validated.value ELSE eventData)
    /\ formattedICS' = FormatICS(icsContent.value)
    /\ upc' = "formatted"
    /\ UNCHANGED <<eventData, rawModelText, validated, icsContent, mailVars, loopVars, histVars>>
    /\ UNCHANGED auxVars

UnitNext == UnitValidate \/ UnitCreate \/ UnitBuild \/ UnitFormat

SpecUnit == UnitInit /\ [][UnitNext]_vars

---------------------------------------------------------------------------
(* Properties of the stand-alone functions, checked under SpecUnit *)

\* The escaping rule as the format states it, one pass over the text.
RECURSIVE EscapedByRule(_)
EscapedByRule(s) ==
    IF s = <<>> THEN <<>>
    ELSE (CASE Head(s) \in {BSL, SEMI, COMMA} -> <<BSL, Head(s)>>
            [] Head(s) = LF -> <<BSL, "n">>
            [] OTHER -> <<Head(s)>>) \o EscapedByRule(Tail(s))

\* The inverse rule, one pass: backslash-n is a newline, backslash-X is X.
RECURSIVE Unescape(_)
Unescape(s) ==
    IF s = <<>> THEN <<>>
    ELSE IF Head(s) = BSL /\ Len(s) >= 2 /\ s[2] = "n"
    THEN <<LF>> \o Unescape(SubSeq(s, 3, Len(s)))
    ELSE IF Head(s) = BSL /\ Len(s) >= 2 /\ s[2] \in {BSL, SEMI, COMMA}
    THEN <<s[2]>> \o Unescape(SubSeq(s, 3, Len(s)))
    ELSE <<Head(s)>> \o Unescape(Tail(s))

\* The document cut at every CRLF.
CRLFAt(doc) == {i \in 1..(Len(doc) - 1) : doc[i] = CR /\ doc[i + 1] = LF}

RECURSIVE Lines(_)
Lines(doc) ==
    IF CRLFAt(doc) = {} THEN <<doc>>
    ELSE LET i == CHOOSE j \in CRLFAt(doc) : \A k \in CRLFAt(doc) : j <= k
         IN <<SubSeq(doc, 1, i - 1)>> \o Lines(SubSeq(doc, i + 2, Len(doc)))

StartsWith(line, prefix) ==
    Len(line) >= Len(prefix) /\ SubSeq(line, 1, Len(prefix)) = prefix

After(line, prefix) == SubSeq(line, Len(prefix) + 1, Len(line))

\* The object createICSFile was called with.
Given == IF rawModelText = <<>> THEN eventData ELSE validated.value

DocumentMade == upc \in {"created", "built", "formatted"}

HasAllFour(ev) == \A k \in Keys : IsString(Get(ev, k)) /\ Get(ev, k).chars # <<>>

NineLines(ev) ==
    <<L_BEGIN_VCALENDAR,
      L_VERSION,
      L_BEGIN_VEVENT,
      P_SUMMARY \o EscapedByRule(Get(ev, "event_title").chars),
      P_DTSTART \o Get(ev, "datetime_start").chars,
      P_DTEND \o Get(ev, "datetime_end").chars,
      P_LOCATION \o EscapedByRule(Get(ev, "location").chars),
      L_END_VEVENT,
      L_END_VCALENDAR>>

EightLines(ev) == SubSeq(NineLines(ev), 1, 6) \o SubSeq(NineLines(ev), 8, 9)

\* C1 as stated: for an event with non-empty title, start, end and location,
\* createICSFile returns the nine lines in order joined by CRLF, and the
\* returned document ends with a trailing CRLF after END:VCALENDAR.
C1_ReturnedDocumentEndsWithCRLF ==
    (DocumentMade /\ HasAllFour(Given)) =>
        /\ ~icsContent.threw
        /\ icsContent.value = Join(NineLines(Given), CRLF) \o CRLF

\* C1 amended: createICSFile returns the nine lines in order joined by CRLF
\* with nothing after END:VCALENDAR; the trailing CRLF is appended by
\* sendResponse, whose attachment text is the returned document plus CRLF.
C1_NineLinesThenCRLFOnSend ==
    (DocumentMade /\ HasAllFour(Given)) =>
        /\ ~icsContent.threw
        /\ icsContent.value = Join(NineLines(Given), CRLF)
        /\ Len(Lines(icsContent.value)) = 9
        /\ upc = "formatted" => formattedICS = icsContent.value \o CRLF

C1_Witness ==
    /\ upc = "formatted"
    /\ HasAllFour(Given)
    /\ Get(Given, "event_title") = Str(<<SEMI>>)
    /\ Get(Given, "location") = Str(<<LF>>)

\* C2: unescaping the text embedded in the SUMMARY line, and in the LOCATION
\* line when there is one, by the inverse rule gives back the original title
\* and location.
C2_RoundTrip ==
    (DocumentMade /\ ~icsContent.threw) =>
        LET lines == Lines(icsContent.value)
            title == Get(Given, "event_title")
            loc == Get(Given, "location")
        IN /\ StartsWith(lines[4], P_SUMMARY)
           /\ Unescape(After(lines[4], P_SUMMARY)) = title.chars
           /\ Truthy(loc) =>
                 /\ StartsWith(lines[Len(lines) - 2], P_LOCATION)
                 /\ Unescape(After(lines[Len(lines) - 2], P_LOCATION)) = loc.chars

C2_Witness ==
    /\ upc = "created"
    /\ ~icsContent.threw
    /\ Get(Given, "event_title") = Str(<<BSL, LF>>)

\* The answer is a JSON object with nothing but white space around it.
IsJsonObjectText(text) ==
    /\ \E i \in 1..Len(text) : text[i].t = "object"
    /\ \A i \in 1..Len(text) : text[i].t \in {"object", "space"}

\* The answer holds prose or a markdown fence.
HasNonJson(text) == \E i \in 1..Len(text) : text[i].t \in {"prose", "fence"}

AnswerChecked == upc \in {"validated", "built"} \/ (upc = "formatted" /\ rawModelText # <<>>)

OnlyMissing(ev, f) ==
    /\ ~Truthy(Get(ev, f))
    /\ \A g \in {"event_title", "datetime_start", "datetime_end"} \ {f} : Truthy(Get(ev, g))

\* C3: when exactly one of event_title, datetime_start, datetime_end of the
\* parsed answer is absent, null or "", validation throws the missing-field
\* error naming that field and returns no event record.
C3_MissingFieldNamed ==
    \A f \in {"event_title", "datetime_start", "datetime_end"} :
        (AnswerChecked /\ IsJsonObjectText(rawModelText) /\ OnlyMissing(eventData, f)) =>
            /\ validated.threw
            /\ validated.error = [name |-> "Error", message |-> "Missing required field", field |-> f]
            /\ validated.value = EmptyObj

C3_Witness ==
    /\ upc = "validated"
    /\ IsJsonObjectText(rawModelText)
    /\ OnlyMissing(eventData, "datetime_end")
    /\ Get(eventData, "datetime_end") = Null

\* C4: an answer that is not JSON (prose, or an object inside markdown
\* fences) makes validation throw the JSON syntax error with no field
\* examined and no event record; that error is not a missing-field error.
C4_MalformedJsonRejected ==
    (AnswerChecked /\ HasNonJson(rawModelText)) =>
        /\ validated.threw
        /\ validated.error.name = "SyntaxError"
        /\ validated.checked = 0
        /\ validated.value = EmptyObj
        /\ \A f \in Keys : validated.error # MissingFieldError(f)
        /\ upc = "validated"

C4_Witness ==
    /\ upc = "validated"
    /\ rawModelText = <<TokFence, TokObject(eventData), TokFence>>
    /\ HasAllFour(eventData)

Accepted(ev) ==
    \A g \in {"event_title", "datetime_start", "datetime_end"} :
        IsString(Get(ev, g)) /\ Get(ev, g).chars # <<>>

\* C5 as stated: validating an object with the three required fields and no
\* location yields a record whose location is "", and createICSFile on that
\* record produces the eight lines without LOCATION.
C5_LocationDefaultsToEmptyString ==
    (AnswerChecked /\ IsJsonObjectText(rawModelText) /\ Accepted(eventData)
       /\ "location" \notin DOMAIN eventData) =>
        /\ ~validated.threw
        /\ Get(validated.value, "location") = Str(<<>>)
        /\ upc \in {"built", "formatted"} =>
              icsContent.value = Join(EightLines(validated.value), CRLF)

\* C5 amended: validation returns the parsed object as it is, so a missing
\* location stays absent (undefined, not ""); createICSFile on that record
\* produces the eight lines without LOCATION.
C5_LocationStaysAbsent ==
    (AnswerChecked /\ IsJsonObjectText(rawModelText) /\ Accepted(eventData)
       /\ "location" \notin DOMAIN eventData) =>
        /\ ~validated.threw
        /\ validated.value = eventData
        /\ "location" \notin DOMAIN validated.value
        /\ Get(validated.value, "location") = Undefined
        /\ upc \in {"built", "formatted"} =>
              /\ ~icsContent.threw
              /\ icsContent.value = Join(EightLines(validated.value), CRLF)
              /\ Len(Lines(icsContent.value)) = 8
              /\ \A i \in 1..8 : ~StartsWith(Lines(icsContent.value)[i], P_LOCATION)

C5_Witness ==
    /\ upc = "built"
    /\ "location" \notin DOMAIN eventData
    /\ Get(eventData, "event_title") = Str(<<COMMA, "n">>)

\* C6: createICSFile called on its own with an empty or missing title, start
\* or end throws the missing-event-data error and returns no document,
\* whatever the other fields are.
C6_DefensiveRecheck ==
    (upc = "created" /\ \E g \in {"event_title", "datetime_start", "datetime_end"} :
                            ~Truthy(Get(eventData, g))) =>
        /\ icsContent.threw
        /\ icsContent.error = [name |-> "Error", message |-> "Missing required event data", field |-> ""]
        /\ icsContent.value = <<>>

C6_Witness ==
    /\ upc = "created"
    /\ Get(eventData, "event_title") = Str(<<>>)
    /\ Truthy(Get(eventData, "datetime_start"))
    /\ Truthy(Get(eventData, "datetime_end"))
    /\ Truthy(Get(eventData, "location"))

---------------------------------------------------------------------------
(* Spec: runs of onNewEmail over a mailbox *)

GoodEvent == MkObj(Str(<<"n", COMMA>>), Str(WellFormedStart), Str(WellFormedEnd), Str(<<SEMI>>))
NoLocationEvent == MkObj(Str(<<"n">>), Str(WellFormedStart), Str(WellFormedEnd), Undefined)
NoTitleEvent == MkObj(Undefined, Str(WellFormedStart), Str(WellFormedEnd), Str(<<"n">>))
NumericTitleEvent == MkObj(Num(<<"7">>), Str(WellFormedStart), Str(WellFormedEnd), Undefined)
NumericStartEvent == MkObj(Str(<<"n">>), Num(<<"7">>), Str(WellFormedEnd), Undefined)

Answers ==
    {Wrap("prose", EmptyObj), Wrap("bare", GoodEvent), Wrap("bare", NoLocationEvent),
     Wrap("bare", NoTitleEvent), Wrap("bare", NumericTitleEvent), Wrap("bare", NumericStartEvent)}

\* What the services do for a thread: the model call fails or answers with a
\* text, and thread.reply fails or not.
Scenarios ==
    {[fails |-> TRUE, text |-> <<>>, replyFails |-> FALSE]}
    \cup {[fails |-> FALSE, text |-> a, replyFails |-> FALSE] : a \in Answers}
    \cup {[fails |-> FALSE, text |-> Wrap("bare", GoodEvent), replyFails |-> TRUE]}

Init ==
    /\ eventData = EmptyObj
    /\ rawModelText = <<>>
    /\ validated = NoValidation
    /\ icsContent = NoResult
    /\ formattedICS = <<>>
    /\ upc = "off"
    /\ unread = Threads
    /\ messages = [t \in Threads |-> 0]
    /\ \E sc \in [Threads -> Scenarios] :
          /\ modelReply = [t \in Threads |-> [fails |-> sc[t].fails, text |-> sc[t].text]]
          /\ replyFails = [t \in Threads |-> sc[t].replyFails]
    /\ threads = <<>>
    /\ idx = 0
    /\ pc = "idle"
    /\ msgIndex = 0
    /\ raised = NoError
    /\ FreshHistory
    /\ AuxIdle

\* The elements of a set of threads, in ascending order.
RECURSIVE InOrder(_)
InOrder(S) ==
    IF S = {} THEN <<>>
    ELSE LET m == CHOOSE x \in S : \A y \in S : x <= y
         IN <<m>> \o InOrder(S \ {m})

\* Mutant: messages[0], the oldest message.
mostRecentMessage_Oldest(n) == 1

\* messages[messages.length - 1], as a position 1..n
mostRecentMessage(n) == n

\* Mutant: the catch block raises a new error in place of the one it caught.
processEmailCatch_NewError(e) == [name |-> "Error", message |-> "Processing failed", field |-> ""]

\* processEmail's catch block: log, then throw error
processEmailCatch(e) == e

\* openAiApiCall's catch block: log, then throw error
openAiApiCallCatch(e) == e

\* sendResponse's catch block: log, then throw error
sendResponseCatch(e) == e

Current == threads[idx]

\* The trigger fires: onNewEmail searches the unread threads.
Search ==
    /\ pc \in {"idle", "done"}
    /\ threads' = InOrder(unread)
    /\ idx' = 1
    /\ pc' = "loop"
    /\ msgIndex' = 0
    /\ raised' = NoError
    /\ calls' = [t \in Threads |-> 0]
    /\ replies' = [t \in Threads |-> 0]
    /\ attached' = [t \in Threads |-> <<>>]
    /\ stage' = [t \in Threads |-> {}]
    /\ origin' = [t \in Threads |-> NoError]
    /\ thrown' = [t \in Threads |-> NoError]
    /\ fieldChecks' = [t \in Threads |-> 0]
    /\ handled' = [t \in Threads |-> NotHandled]
    /\ UNCHANGED <<unitVars, mailVars>>
    /\ UNCHANGED auxVars

\* Loop body up to the call: getMessages, pick the message, call processEmail.
CallProcessEmail ==
    /\ pc = "loop"
    /\ idx <= Len(threads)
    /\ \E n \in 1..MaxMessages :
          /\ messages' = [messages EXCEPT ![Current] = n]
          /\ msgIndex' = mostRecentMessage(n)
          /\ handled' = [handled EXCEPT ![Current] = [index |-> mostRecentMessage(n), count |-> n]]
    /\ eventData' = EmptyObj
    /\ rawModelText' = <<>>
    /\ validated' = NoValidation
    /\ icsContent' = NoResult
    /\ formattedICS' = <<>>
    /\ pc' = "fetch"
    /\ UNCHANGED <<upc, unread, modelReply, replyFails, threads, idx, raised,
                   calls, replies, attached, stage, origin, thrown, fieldChecks>>
    /\ UNCHANGED auxVars

\* openAiApiCall: UrlFetchApp.fetch and the unwrapping of the response.
Fetch ==
    /\ pc = "fetch"
    /\ calls' = [calls EXCEPT ![Current] = @ + 1]
    /\ IF modelReply[Current].fails
       THEN /\ raised' = openAiApiCallCatch(FetchError)
            /\ origin' = [origin EXCEPT ![Current] = FetchError]
            /\ pc' = "processEmailCatch"
            /\ UNCHANGED <<rawModelText, stage>>
       ELSE /\ rawModelText' = modelReply[Current].text
            /\ stage' = [stage EXCEPT ![Current] = @ \cup {"model"}]
            /\ pc' = "validate"
            /\ UNCHANGED <<raised, origin>>
    /\ UNCHANGED <<eventData, validated, icsContent, formattedICS, upc, mailVars,
                   threads, idx, msgIndex, replies, attached, thrown, fieldChecks, handled>>
    /\ UNCHANGED auxVars

\* openAiApiCall: JSON.parse of the content and the required-field loop.
Validate ==
    /\ pc = "validate"
    /\ LET result == ParseAndValidate(rawModelText)
       IN /\ validated' = result
          /\ fieldChecks' = [fieldChecks EXCEPT ![Current] = result.checked]
          /\ IF result.threw
             THEN /\ raised' = openAiApiCallCatch(result.error)
                  /\ origin' = [origin EXCEPT ![Current] = result.error]
                  /\ pc' = "processEmailCatch"
                  /\ UNCHANGED <<eventData, stage>>
             ELSE /\ eventData' = result.value
                  /\ stage' = [stage EXCEPT ![Current] = @ \cup {"validation"}]
                  /\ pc' = "create"
                  /\ UNCHANGED <<raised, origin>>
    /\ UNCHANGED <<rawModelText, icsContent, formattedICS, upc, mailVars,
                   threads, idx, msgIndex, calls, replies, attached, thrown, handled>>
    /\ UNCHANGED auxVars

\* processEmail: createICSFile(eventData).
Create ==
    /\ pc = "create"
    /\ LET result == createICSFile(eventData)
       IN /\ icsContent' = result
          /\ IF result.threw
             THEN /\ raised' = result.error
                  /\ origin' = [origin EXCEPT ![Current] = result.error]
                  /\ pc' = "processEmailCatch"
                  /\ UNCHANGED stage
             ELSE /\ stage' = [stage EXCEPT ![Current] = @ \cup {"invite"}]
                  /\ pc' = "send"
                  /\ UNCHANGED <<raised, origin>>
    /\ UNCHANGED <<eventData, rawModelText, validated, formattedICS, upc, mailVars,
                   threads, idx, msgIndex, calls, replies, attached, thrown, fieldChecks, handled>>
    /\ UNCHANGED auxVars

\* processEmail: sendResponse(message, icsContent, eventData), then return.
Send ==
    /\ pc = "send"
    /\ IF EmailBodyThrows(eventData)
       THEN /\ raised' = sendResponseCatch(TypeError)
            /\ origin' = [origin EXCEPT ![Current] = TypeError]
            /\ pc' = "processEmailCatch"
            /\ UNCHANGED <<formattedICS, replies, attached, stage>>
       ELSE /\ formattedICS' = FormatICS(icsContent.value)
            /\ IF replyFails[Current]
               THEN /\ raised' = sendResponseCatch(ReplyError)
                    /\ origin' = [origin EXCEPT ![Current] = ReplyError]
                    /\ pc' = "processEmailCatch"
                    /\ UNCHANGED <<replies, attached, stage>>
               ELSE /\ replies' = [replies EXCEPT ![Current] = @ + 1]
                    /\ attached' = [attached EXCEPT ![Current] = Append(@, FormatICS(icsContent.value))]
                    /\ stage' = [stage EXCEPT ![Current] = @ \cup {"reply"}]
                    /\ pc' = "mark"
                    /\ UNCHANGED <<raised, origin>>
    /\ UNCHANGED <<eventData, rawModelText, validated, icsContent, upc, mailVars,
                   threads, idx, msgIndex, calls, thrown, fieldChecks, handled>>
    /\ UNCHANGED auxVars

\* processEmail's catch block: the error leaves processEmail.
ProcessEmailCatch ==
    /\ pc = "processEmailCatch"
    /\ raised' = processEmailCatch(raised)
    /\ thrown' = [thrown EXCEPT ![Current] = processEmailCatch(raised)]
    /\ pc' = "onNewEmailCatch"
    /\ UNCHANGED <<unitVars, mailVars, threads, idx, msgIndex,
                   calls, replies, attached, stage, origin, fieldChecks, handled>>
    /\ UNCHANGED auxVars

\* Mutant: the catch block marks the thread it failed on as read.
OnNewEmailCatch_MarksRead ==
    /\ pc = "onNewEmailCatch"
    /\ raised' = NoError
    /\ pc' = "done"
    /\ unread' = unread \ {Current}
    /\ UNCHANGED <<unitVars, messages, modelReply, replyFails, threads, idx, msgIndex, histVars>>
    /\ UNCHANGED auxVars

\* onNewEmail's catch block, around the whole loop: log; the run is over.
OnNewEmailCatch ==
    /\ pc = "onNewEmailCatch"
    /\ raised' = NoError
    /\ pc' = "done"
    /\ UNCHANGED <<unitVars, mailVars, threads, idx, msgIndex, histVars>>
    /\ UNCHANGED auxVars

\* thread.markRead(), then the next iteration.
MarkRead ==
    /\ pc = "mark"
    /\ unread' = unread \ {Current}
    /\ stage' = [stage EXCEPT ![Current] = @ \cup {"read"}]
    /\ idx' = idx + 1
    /\ pc' = "loop"
    /\ UNCHANGED <<unitVars, messages, modelReply, replyFails, threads, msgIndex, raised,
                   calls, replies, attached, origin, thrown, fieldChecks, handled>>
    /\ UNCHANGED auxVars

\* The loop has gone through every thread found.
Finish ==
    /\ pc = "loop"
    /\ idx > Len(threads)
    /\ pc' = "done"
    /\ UNCHANGED <<unitVars, mailVars, threads, idx, msgIndex, raised, histVars>>
    /\ UNCHANGED auxVars

Next ==
    \/ Search
    \/ CallProcessEmail
    \/ Fetch
    \/ Validate
    \/ Create
    \/ Send
    \/ ProcessEmailCatch
    \/ OnNewEmailCatch
    \/ MarkRead
    \/ Finish

Spec == Init /\ [][Next]_vars

---------------------------------------------------------------------------
(* Properties of the runs of onNewEmail, checked under Spec *)

\* The object in the model's answer for a thread.
AnswerObject(t) ==
    LET text == modelReply[t].text
    IN text[CHOOSE i \in 1..Len(text) : text[i].t = "object"].obj

NonEmptyString(v) == IsString(v) /\ v.chars # <<>>

\* What the services do for the thread lets its own pipeline go through.
OwnSuccess(t) ==
    /\ ~modelReply[t].fails
    /\ IsJsonObjectText(modelReply[t].text)
    /\ \A g \in {"event_title", "datetime_start", "datetime_end"} :
          NonEmptyString(Get(AnswerObject(t), g))
    /\ ~replyFails[t]

\* The attachment the thread's answer calls for.
ExpectedAttachment(t) ==
    LET o == AnswerObject(t)
    IN Join(IF Get(o, "location") = Undefined THEN EightLines(o) ELSE NineLines(o), CRLF) \o CRLF

InPipeline == pc \in {"fetch", "validate", "create", "send", "processEmailCatch"}

\* C7: a reply is sent for a thread only if the model call, the validation
\* and the invite generation all succeeded, and it then carries the full
\* invite document; if a step failed, nothing is sent for that thread.
C7_NoPartialSuccess ==
    \A t \in Threads :
        /\ replies[t] > 0 =>
              /\ {"model", "validation", "invite"} \subseteq stage[t]
              /\ origin[t] = NoError
              /\ OwnSuccess(t)
              /\ attached[t] = <<ExpectedAttachment(t)>>
        /\ (origin[t] # NoError \/ (handled[t] # NotHandled /\ ~OwnSuccess(t))) =>
              /\ replies[t] = 0
              /\ attached[t] = <<>>

C7_Witness ==
    /\ pc = "done"
    /\ \E t, u \in Threads :
          /\ replies[t] = 1
          /\ "location" \in DOMAIN AnswerObject(t)
          /\ "validation" \notin stage[u]
          /\ "model" \in stage[u]

\* C8: at the end of a run, each thread the run found was replied to and
\* marked read exactly when its own processing could succeed, whatever
\* happened to the other threads of the run.
C8_ThreadsIndependent ==
    pc = "done" =>
        \A i \in 1..Len(threads) :
            OwnSuccess(threads[i]) <=> (replies[threads[i]] = 1 /\ threads[i] \notin unread)

\* C9: in one run every thread gets at most one model call and at most one
\* reply, and processEmail is called with the last message of the thread.
C9_OncePerThreadOnLastMessage ==
    /\ \A t \in Threads :
          /\ calls[t] <= 1
          /\ replies[t] <= 1
          /\ Len(attached[t]) <= 1
          /\ handled[t].index = handled[t].count
          /\ thrown[t] # NoError => (calls[t] = 1 /\ replies[t] = 0)
    /\ InPipeline => msgIndex = messages[Current]

C9_Witness ==
    /\ pc = "done"
    /\ \E t, u \in Threads :
          /\ handled[t].count >= 2
          /\ replies[t] = 1
          /\ thrown[u] # NoError
          /\ calls[u] = 1

\* The error the services' behaviour for the thread makes the pipeline raise.
ExpectedError(t) ==
    IF modelReply[t].fails THEN FetchError
    ELSE IF HasNonJson(modelReply[t].text) THEN SyntaxError
    ELSE LET o == AnswerObject(t)
         IN IF ~Truthy(Get(o, "event_title")) THEN MissingFieldError("event_title")
            ELSE IF ~Truthy(Get(o, "datetime_start")) THEN MissingFieldError("datetime_start")
            ELSE IF ~Truthy(Get(o, "datetime_end")) THEN MissingFieldError("datetime_end")
            ELSE IF ~IsString(Get(o, "event_title")) THEN TypeError
            ELSE IF ~IsString(Get(o, "datetime_start")) THEN TypeError
            ELSE IF replyFails[t] THEN ReplyError
            ELSE NoError

\* processEmail has been called for the thread in this run and is over.
ProcessEmailOver(t) ==
    /\ handled[t] # NotHandled
    /\ ~(InPipeline /\ Current = t)

\* C10: an error raised by the model call, the validation, the invite
\* generation or the sending of the reply leaves processEmail as that same
\* error, and onNewEmail's catch block receives it.
C10_ErrorsPropagated ==
    /\ \A t \in Threads :
          /\ ProcessEmailOver(t) => (thrown[t] = origin[t] /\ thrown[t] = ExpectedError(t))
          /\ thrown[t] # NoError => thrown[t] = origin[t]
    /\ pc = "onNewEmailCatch" => (raised = origin[Current] /\ raised # NoError)

C10_Witness ==
    /\ pc = "onNewEmailCatch"
    /\ thrown[Current] = TypeError
    /\ "validation" \in stage[Current]
    /\ "invite" \notin stage[Current]

---------------------------------------------------------------------------
(* SpecDate: formatDate and formatTime on the timestamps of the bounds *)

DigitChars == <<"0", "1", "2", "3", "4", "5", "6", "7", "8", "9">>
IsDigit(c) == \E i \in 1..10 : DigitChars[i] = c
DigitValue(c) == (CHOOSE i \in 1..10 : DigitChars[i] = c) - 1

\* String.prototype.slice(from, to) with 0 <= from <= to
Slice(str, from, to) ==
    SubSeq(str, from + 1, IF to < Len(str) THEN to ELSE Len(str))

\* parseInt(str, 10): the number its leading digits spell, NaN without any.
RECURSIVE LeadingDigits(_, _)
LeadingDigits(str, acc) ==
    IF str # <<>> /\ IsDigit(Head(str))
    THEN LeadingDigits(Tail(str), acc * 10 + DigitValue(Head(str)))
    ELSE acc

parseInt(str) ==
    IF str # <<>> /\ IsDigit(Head(str))
    THEN [nan |-> FALSE, n |-> LeadingDigits(str, 0)]
    ELSE [nan |-> TRUE, n |-> 0]

\* `${number}`
RECURSIVE NumberText(_)
NumberText(n) ==
    IF n < 10 THEN <<DigitChars[n + 1]>>
    ELSE Append(NumberText(n \div 10), DigitChars[(n % 10) + 1])

NaNText == <<"N", "a", "N">>
UndefinedText == <<"u", "n", "d", "e", "f", "i", "n", "e", "d">>

months ==
    << <<"J","a","n","u","a","r","y">>,
       <<"F","e","b","r","u","a","r","y">>,
       <<"M","a","r","c","h">>,
       <<"A","p","r","i","l">>,
       <<"M","a","y">>,
       <<"J","u","n","e">>,
       <<"J","u","l","y">>,
       <<"A","u","g","u","s","t">>,
       <<"S","e","p","t","e","m","b","e","r">>,
       <<"O","c","t","o","b","e","r">>,
       <<"N","o","v","e","m","b","e","r">>,
       <<"D","e","c","e","m","b","e","r">> >>

suffixes == << <<"t","h">>, <<"s","t">>, <<"n","d">>, <<"r","d">> >>

\* Mutant: the exceptions for 11, 12 and 13 are forgotten.
daySuffix_NoTeens(day) ==
    IF day.nan THEN suffixes[1]
    ELSE IF day.n % 10 = 1 THEN suffixes[2]
    ELSE IF day.n % 10 = 2 THEN suffixes[3]
    ELSE IF day.n % 10 = 3 THEN suffixes[4]
    ELSE suffixes[1]

\* The conditional chain that picks the suffix; every comparison with NaN is false.
daySuffix(day) ==
    IF day.nan THEN suffixes[1]
    ELSE IF day.n % 10 = 1 /\ day.n # 11 THEN suffixes[2]
    ELSE IF day.n % 10 = 2 /\ day.n # 12 THEN suffixes[3]
    ELSE IF day.n % 10 = 3 /\ day.n # 13 THEN suffixes[4]
    ELSE suffixes[1]

\* months[parseInt(month, 10) - 1]
MonthName(month) ==
    IF ~month.nan /\ month.n \in 1..Len(months) THEN months[month.n] ELSE UndefinedText

formatDate(str) ==
    LET year == Slice(str, 0, 4)
        month == Slice(str, 4, 6)
        day == parseInt(Slice(str, 6, 8))
    IN (IF day.nan THEN NaNText ELSE NumberText(day.n)) \o daySuffix(day)
       \o <<" ">> \o MonthName(parseInt(month)) \o <<" ">> \o year

formatTime(str) == Slice(str, 9, 11) \o <<":">> \o Slice(str, 11, 13)

\* Two-digit fields: "00" to "39" for the day, "00" to "13" for the month.
DayFields == {<<a, b>> : a \in {"0", "1", "2", "3"}, b \in {DigitChars[i] : i \in 1..10}}
MonthFields == {<<"0", DigitChars[i]>> : i \in 1..10} \cup {<<"1", b>> : b \in {"0", "1", "2", "3"}}
ClockFields == {<<"0","9","0","0","0","0">>, <<"1","3","4","5","0","0">>}

Timestamps ==
    {<<"2","0","2","5">> \o m \o d \o <<"T">> \o c : m \in MonthFields, d \in DayFields, c \in ClockFields}
    \cup {MalformedTimestamp}

UnitIdle ==
    /\ eventData = EmptyObj
    /\ rawModelText = <<>>
    /\ validated = NoValidation
    /\ icsContent = NoResult
    /\ formattedICS = <<>>

DateInit ==
    /\ UnitIdle
    /\ upc = "timestamp"
    /\ MailIdle
    /\ dateTime \in Timestamps
    /\ dateText = <<>>
    /\ timeText = <<>>
    /\ triggers = <<>>
    /\ triggerCalls = 0

\* sendResponse renders the timestamp for the body of the reply.
FormatDateTime ==
    /\ upc = "timestamp"
    /\ dateText' = formatDate(dateTime)
    /\ timeText' = formatTime(dateTime)
    /\ upc' = "rendered"
    /\ UNCHANGED <<eventData, rawModelText, validated, icsContent, formattedICS,
                   mailVars, loopVars, histVars, dateTime, triggers, triggerCalls>>

DateNext == FormatDateTime

SpecDate == DateInit /\ [][DateNext]_vars

\* The day of the month the timestamp names, read off its two digits.
DayOf(str) == DigitValue(str[7]) * 10 + DigitValue(str[8])

\* The suffix the rule gives each day of 1..31, listed.
SuffixByRule(d) ==
    CASE d \in {1, 21, 31} -> <<"s", "t">>
      [] d \in {2, 22} -> <<"n", "d">>
      [] d \in {3, 23} -> <<"r", "d">>
      [] OTHER -> <<"t", "h">>

\* The day written without a leading zero.
DayByRule(str) == IF str[7] = "0" THEN <<str[8]>> ELSE <<str[7], str[8]>>

\* C11: for a timestamp whose day field is 1..31, formatDate renders the day
\* without leading zero followed by "st", "nd", "rd" or "th" by the rule
\* (11, 12, 13 get "th"; 21, 22, 23, 31 get "st", "nd", "rd", "st").
C11_DaySuffix ==
    (upc = "rendered" /\ Len(dateTime) = 15 /\ DayOf(dateTime) \in 1..31) =>
        StartsWith(dateText, DayByRule(dateTime) \o SuffixByRule(DayOf(dateTime)) \o <<" ">>)

C11_Witness ==
    /\ upc = "rendered"
    /\ Len(dateTime) = 15
    /\ DayOf(dateTime) = 12
    /\ StartsWith(dateText, <<"1", "2", "t", "h", " ", "M", "a", "r", "c", "h", " ">>)

---------------------------------------------------------------------------
(* Further properties of the stand-alone functions, checked under SpecUnit *)

RequiredKeys == {"event_title", "datetime_start", "datetime_end"}

\* C12: validation accepts every non-empty datetime_start / datetime_end,
\* matching the advertised pattern or not, and the DTSTART and DTEND lines
\* of the document hold exactly the supplied values, unescaped.
C12_TimestampsVerbatim ==
    /\ (AnswerChecked /\ IsJsonObjectText(rawModelText)
          /\ \A g \in RequiredKeys : Truthy(Get(eventData, g))) =>
            /\ ~validated.threw
            /\ \A g \in {"datetime_start", "datetime_end"} :
                  Get(validated.value, g) = Get(eventData, g)
    /\ (DocumentMade /\ ~icsContent.threw) =>
            /\ Lines(icsContent.value)[5] = P_DTSTART \o Get(Given, "datetime_start").chars
            /\ Lines(icsContent.value)[6] = P_DTEND \o Get(Given, "datetime_end").chars

C12_Witness ==
    /\ upc = "built"
    /\ ~icsContent.threw
    /\ Get(eventData, "datetime_start") = Str(MalformedTimestamp)
    /\ Get(eventData, "datetime_end") = Str(MalformedTimestamp)
    /\ Lines(icsContent.value)[5] = P_DTSTART \o <<"n", SEMI>>

---------------------------------------------------------------------------
(* SpecTrigger: createTrigger run again and again on a project's triggers *)

MaxTriggers == 3
MaxCalls == 2

Trigger(h, src, m) == [handler |-> h, source |-> src, minutes |-> m]

\* ScriptApp.newTrigger('onNewEmail').timeBased().everyMinutes(1)
NewTrigger == Trigger("onNewEmail", "CLOCK", 1)

\* Triggers a project may hold before the first call.
TriggerKinds ==
    {Trigger(h, "CLOCK", m) : h \in {"onNewEmail", "cleanUp"}, m \in {1, 5}}
    \cup {Trigger("onNewEmail", "CALENDAR", 0)}

RECURSIVE TriggerLists(_)
TriggerLists(n) ==
    IF n = 0 THEN {<<>>}
    ELSE LET shorter == TriggerLists(n - 1)
         IN shorter \cup {Append(l, k) : l \in {x \in shorter : Len(x) = n - 1}, k \in TriggerKinds}

\* ScriptApp.deleteTrigger(trigger): the project loses that trigger.
RECURSIVE deleteTrigger(_, _)
deleteTrigger(list, trigger) ==
    IF list = <<>> THEN <<>>
    ELSE IF Head(list) = trigger THEN Tail(list)
    ELSE <<Head(list)>> \o deleteTrigger(Tail(list), trigger)

\* existingTriggers.forEach(trigger => ScriptApp.deleteTrigger(trigger)), from position i
RECURSIVE DeleteEach(_, _, _)
DeleteEach(list, existingTriggers, i) ==
    IF i > Len(existingTriggers) THEN list
    ELSE DeleteEach(deleteTrigger(list, existingTriggers[i]), existingTriggers, i + 1)

\* Mutant: the existing triggers are not deleted first.
createTrigger_KeepExisting(list) == Append(list, NewTrigger)

\* The project's triggers after createTrigger.
createTrigger(list) == Append(DeleteEach(list, list, 1), NewTrigger)

TriggerInit ==
    /\ UnitIdle
    /\ upc = "triggers"
    /\ MailIdle
    /\ dateTime = <<>>
    /\ dateText = <<>>
    /\ timeText = <<>>
    /\ triggers \in TriggerLists(MaxTriggers)
    /\ triggerCalls = 0

CreateTrigger ==
    /\ upc = "triggers"
    /\ triggerCalls < MaxCalls
    /\ triggers' = createTrigger(triggers)
    /\ triggerCalls' = triggerCalls + 1
    /\ UNCHANGED <<unitVars, mailVars, loopVars, histVars, dateTime, dateText, timeText>>

TriggerNext == CreateTrigger

SpecTrigger == TriggerInit /\ [][TriggerNext]_vars

\* C13: after one or more calls of createTrigger, whatever triggers the
\* project held before, exactly one trigger exists: the time-based trigger
\* that runs onNewEmail every minute.
C13_OneTrigger ==
    triggerCalls >= 1 =>
        /\ Len(triggers) = 1
        /\ triggers[1] = [handler |-> "onNewEmail", source |-> "CLOCK", minutes |-> 1]

C13_Witness ==
    /\ triggerCalls = 2
    /\ Len(triggers) = 1

---------------------------------------------------------------------------
(* Further properties of the runs of onNewEmail, checked under Spec *)

\* A thread marked read in this run was replied to and processEmail raised
\* nothing for it; a thread whose processing failed is still unread.
ReadOnlyAfterReply ==
    \A t \in Threads :
        /\ "read" \in stage[t] =>
              /\ "reply" \in stage[t]
              /\ replies[t] = 1
              /\ origin[t] = NoError
              /\ thrown[t] = NoError
        /\ origin[t] # NoError => (t \in unread /\ "read" \notin stage[t])

\* A thread leaves the unread set only by markRead after its reply.
MarkedReadByMarkRead ==
    \A t \in Threads :
        (t \in unread /\ t \notin unread') =>
            (pc = "mark" /\ Current = t /\ "reply" \in stage[t] /\ thrown[t] = NoError)

\* The next poll finds every thread that failed in the run before it.
FailedFoundAgain ==
    (pc \in {"idle", "done"} /\ pc' = "loop") =>
        \A t \in Threads :
            thrown[t] # NoError => \E i \in 1..Len(threads') : threads'[i] = t

\* C14: a thread is marked read only after processEmail for its last message
\* returned without error, hence after the reply was sent; a thread whose
\* processing failed is not marked read in that run and the next poll finds
\* it again as unread.
C14_ReadOnlyAfterSuccess ==
    /\ []ReadOnlyAfterReply
    /\ [][MarkedReadByMarkRead /\ FailedFoundAgain]_vars

\* A later poll has found a thread that an earlier run failed on.
C14_Witness ==
    /\ pc = "loop"
    /\ idx = 1
    /\ unread # Threads
    /\ Len(threads) >= 1
    /\ ~OwnSuccess(threads[1])

---------------------------------------------------------------------------
(* Further properties of validation followed by createICSFile, checked
   under SpecUnit *)

Built == upc = "built" \/ (upc = "formatted" /\ rawModelText # <<>>)

\* C15: every record the validation of the model's answer accepts passes
\* createICSFile's re-check of the required fields, so createICSFile called
\* on a validated record never throws the missing-event-data error.
C15_ValidatorAndGeneratorAgree ==
    /\ (AnswerChecked /\ ~validated.threw) =>
          /\ RequiredEventDataPresent(validated.value)
          /\ \A g \in RequiredKeys : Get(validated.value, g) \notin {Undefined, Null, Str(<<>>)}
    /\ Built =>
          ~(icsContent.threw /\ icsContent.error.message = "Missing required event data")

C15_Witness ==
    /\ upc = "built"
    /\ ~icsContent.threw
    /\ "location" \notin DOMAIN validated.value
    /\ Get(validated.value, "datetime_start") = Str(MalformedTimestamp)

WellFormedInput(ev) ==
    /\ Get(ev, "datetime_start") = Str(WellFormedStart)
    /\ Get(ev, "datetime_end") = Str(WellFormedEnd)
    /\ IsString(Get(ev, "event_title")) /\ Get(ev, "event_title").chars # <<>>
    /\ IsString(Get(ev, "location")) \/ ~Truthy(Get(ev, "location"))

\* C16: for every title and location over backslash, semicolon, comma,
\* newline and ordinary characters, with well-formed timestamps, the document
\* split at CRLF has eight lines when the location is empty and nine
\* otherwise, and every line but SUMMARY and LOCATION is the fixed line or
\* the timestamp line, with no text of the title or the location in it.
C16_StructureUnaltered ==
    (DocumentMade /\ WellFormedInput(Given)) =>
        /\ ~icsContent.threw
        /\ LET ls == Lines(icsContent.value)
               n == IF Truthy(Get(Given, "location")) THEN 9 ELSE 8
           IN /\ Len(ls) = n
              /\ ls[1] = L_BEGIN_VCALENDAR
              /\ ls[2] = L_VERSION
              /\ ls[3] = L_BEGIN_VEVENT
              /\ StartsWith(ls[4], P_SUMMARY)
              /\ ls[5] = P_DTSTART \o WellFormedStart
              /\ ls[6] = P_DTEND \o WellFormedEnd
              /\ n = 9 => StartsWith(ls[7], P_LOCATION)
              /\ ls[n - 1] = L_END_VEVENT
              /\ ls[n] = L_END_VCALENDAR

C16_Witness ==
    /\ upc = "created"
    /\ WellFormedInput(eventData)
    /\ Get(eventData, "event_title") = Str(<<CR, LF>>)
    /\ ~icsContent.threw
    /\ Len(Lines(icsContent.value)) = 8

====
